---------------------------- MODULE Spec2Model ----------------------------
(***************************************************************************)
(* Line-following control core of picarx/lfs.py: Sensor (oversampling +    *)
(* EMA), Interpreter (contrast hysteresis, centroid offset), Controller    *)
(* (slew-limited steering, search sweep, speed law) and line_follow_loop.  *)
(*                                                                         *)
(* Python floats are modelled in fixed point.  Offsets and confidences are *)
(* integers in units of 1/OS, angles in units of 1/AS degree, times in     *)
(* units of 1/TS second.  Sensor readings and contrasts are the integers   *)
(* the ADC delivers.  Products are divided with TDiv (truncation toward    *)
(* zero) so that a convex blend never leaves the interval of its operands. *)
(* The 1e-9 added to the evidence sum in the centroid division is below    *)
(* the resolution 1/OS; it is represented only where it decides the        *)
(* result, at an evidence sum of zero.                                     *)
(*                                                                         *)
(* Four specifications share the variables: Spec follows main() through    *)
(* line_follow_loop; SpecInterp calls Interpreter.process with any         *)
(* reading; SpecCtl calls the Controller with any estimate; SpecSweep      *)
(* follows the Controller through one sustained loss.  Constructor         *)
(* arguments are drawn in the initial state, rejected ones included: a     *)
(* rejected construction leaves pc = "config_error" and nothing runs.      *)
(***************************************************************************)
EXTENDS Integers, Sequences, FiniteSets, TLC

\* ------------------------------------------------------------------ units
\* fixed-point resolution of offsets and confidences: 1.0 = OS
OS == 10^2
\* denominator of the two-decimal factors: 0.35 = 35/Cent
Cent == 10^2
\* angles in whole degrees: 1 degree = AS
AS == 10^0
\* clock readings (time.time()) in units of 40 ms: 1 s = TS
TS == 5^2
\* the period argument dt in units of 0.1 ms: 1 s = DS
DS == 10^4

\* ----------------------------------------------------------------- bounds
\* the latest clock reading the model follows, in 1/TS s
MaxNow == 8
\* the longest the clock advances between two readings taken by steer_angle
MaxAdvance == 3
\* the latest clock reading followed through a sustained loss, in 1/TS s
MaxSweepNow == 40
\* the number of Sensor.read calls followed when the Sensor is driven alone
MaxReads == 4
\* the number of ticks of line_follow_loop the model follows
MaxTicks == 5
\* number of levels an ADC channel may read in the model: 0, 30, ... see Levels
NLevels == 3

\* the readings a channel can deliver, as many as NLevels asks for
LevelAt(i) ==
    CASE i = 1 -> 0
      [] i = 2 -> 30
      [] i = 3 -> 100
      [] i = 4 -> 150
      [] OTHER -> 70 + 10 * (i - 5)

Levels == {LevelAt(i) : i \in 1..NLevels}
\* a line almost centred under the sensor: the outer channels differ by 2
SkewedReadings == {<<28, 100, 30>>}
Readings ==
    {<<a, b, c>> : a \in Levels, b \in Levels, c \in Levels}
        \cup SkewedReadings

\* ------------------------------------------------------- program constants
\* Interpreter(deadband=0.06), in 1/OS
deadband == 6
\* Interpreter(offset_alpha=0.35), in 1/Cent
offset_alpha == 35
\* Interpreter(contrast_on=90)
ContrastOnDefault == 90
\* Interpreter(contrast_off=55)
ContrastOffDefault == 55
\* the evidence guard "ssum < 1e-6": 1/EpsDen
EpsDen == 10^6

\* maneuvers.py: ttd = 2.0 s, the length of a leg, in 1/Cent s
ttd == 200
\* maneuvers.py: SERVO_SETTLE = 0.15 s, in 1/Cent s
SERVO_SETTLE == 15

\* I2C.RETRY
RETRY == 5

\* Controller(kp_deg=16.0)
kp_deg == 16
\* Controller(max_deg=None): getattr(car, "DIR_MAX", 30), degrees
max_deg == 30
\* Controller(speed_scale=0.50), in 1/Cent
speed_scale == 50
\* Controller(search_max_deg=22.0), degrees
search_max_deg == 22
\* Controller(search_period_s=1.2), in 1/10 s
search_period_s == 12
\* the floor of the sweep period, max(0.4, search_period_s), in 1/10 s
MinPeriod == 4
\* Controller(hold_last_s=0.35), in 1/Cent s
hold_last_s == 35
\* Controller(angle_alpha=0.35), in 1/Cent
angle_alpha == 35
\* the hold target 0.6 * search_max_deg, in 1/10
HoldFraction == 6
\* the last-side bias of the sweep, sign * 3.0 degrees
SweepBias == 3
\* the floor of dt in the slew limit, max(1e-3, dt): 1/MinDtDen s
MinDtDen == 10^3
\* the upper limit of speed_cmd's clamp
SpeedMax == 100

\* the arguments Controller and line_follow_loop are constructed with:
\* those of main(); a bench setting (fast servo, short period, high base
\* speed, stop while lost, a sweep period of 0.2 s); and those of main()
\* with the gain negated
ControllerArgs ==
    { [kp_deg |-> kp_deg, base_speed |-> 18, min_speed |-> 18,
       search_speed |-> 32, search_period_s |-> search_period_s,
       max_slew |-> 120, dt |-> 800],
      [kp_deg |-> kp_deg, base_speed |-> 150, min_speed |-> 30,
       search_speed |-> 0, search_period_s |-> 2,
       max_slew |-> 3000, dt |-> 1],
      [kp_deg |-> -kp_deg, base_speed |-> 18, min_speed |-> 18,
       search_speed |-> 32, search_period_s |-> search_period_s,
       max_slew |-> 120, dt |-> 800] }

\* estimates a caller may hand to the Controller: offsets (1/OS) beyond
\* [-1, 1] included, confidences (1/OS)
OffsetArgs == {-3 * OS, 0, OS \div 2}
ConfArgs == {OS \div 2, OS}

\* Sensor(oversample=3)
oversample == 3
\* Sensor(ema_alpha=0.30), in 1/Cent
ema_alpha == 30

\* what the three ADC channels show during one oversampled batch
Scenes == {<<100, 100, 100>>, <<30, 150, 150>>}
\* how long sensor.read() blocks, in 1/TS s: less than main()'s dt, or more
ReadLatencies == {1, 3}

Polarities == {"dark", "light"}
\* the polarity argument the constructor is called with: also a wrong one
PolarityArgs == Polarities \cup {"grey"}
\* thresholds the constructor is called with: those of main(), a zero
\* lower threshold (accepted: 0 < 90), a lower threshold equal to the upper
\* one and one above it
ContrastOnArgs == {ContrastOnDefault}
ContrastOffArgs == {ContrastOffDefault, 0, ContrastOnDefault, 120}

VARIABLES
    polarity,       \* Interpreter.polarity, as passed to the constructor
    contrast_on,    \* Interpreter.contrast_on, as passed
    contrast_off,   \* Interpreter.contrast_off, as passed
    tracking,       \* Interpreter._tracking
    offset_ema,     \* Interpreter._offset_ema, in 1/OS
    readings,       \* argument of the last Interpreter.process call
    trackingIn,     \* Interpreter._tracking on entry to that call
    trackOffset,    \* the offset the last Track call returned, 0 before any
    est,            \* the estimate (offset, conf, mode) last produced
    cfg,            \* Controller's gain, speed, sweep and slew arguments,
                    \* the loop's dt
    steer_target,   \* steer_angle's target before clamp and slew limit, in
                    \* 1/AS degree; 0 before any call
    prev_angle,     \* Controller._prev_angle, in 1/AS degree
    last_offset,    \* Controller._last_offset, in 1/OS
    lost_since,     \* Controller._lost_since, None or a clock reading
    now,            \* the last value time.time() returned, in 1/TS s
    servo,          \* the angle last passed to car.set_dir_servo_angle
    speed,          \* what speed_cmd returned for est, None before it ran
    sensor_ema,     \* Sensor._ema, <<>> for None, else three values in 1/Cent
    raws,           \* what the ADC channels showed at each sensor.read()
    batches,        \* the reads of every sensor.read() call: per call, one
                    \* triple of channel values per oversampling pass
    sensed,         \* line_follow_loop's readings, what sensor.read() returned
    events,         \* the calls line_follow_loop has completed, in order
    starts,         \* t0 of every tick begun, in order
    waits,          \* the argument of every time.sleep call, in order
    pc,             \* where line_follow_loop is
    ticks,          \* ticks begun
    t0,             \* line_follow_loop's t0
    exc,            \* the exception in flight ("none": none)
    cmds,           \* every call made on the car, in order
    shutAt,         \* Len(cmds) when the finally block was entered, else None
    maneuver,       \* the scripted maneuver called, with its arguments
    mip,            \* how many of its statements have run
    slept,          \* the time it has spent in time.sleep, in 1/Cent s
    i2c_attempts,   \* the outcome of every call the retry wrapper has made
    i2c_ret         \* how the wrapped I2C method has ended, if it has

ivars == <<polarity, contrast_on, contrast_off, tracking, offset_ema,
           readings, trackingIn, trackOffset>>
cvars == <<cfg, steer_target, prev_angle, last_offset, lost_since, now, servo,
           speed>>

lvars == <<sensor_ema, raws, batches, sensed, events, starts, waits, pc,
           ticks, t0, exc, cmds, shutAt>>

mvars == <<maneuver, mip, slept>>
bvars == <<i2c_attempts, i2c_ret>>

vars == <<ivars, est, cvars, lvars, mvars, bvars>>

None == -1

\* ---------------------------------------------------------------- helpers
Max2(a, b) == IF a >= b THEN a ELSE b
Min2(a, b) == IF a <= b THEN a ELSE b
Abs(a) == IF a >= 0 THEN a ELSE -a

\* division truncating toward zero, as int() and a float product cut to the
\* model's resolution
TDiv(a, b) == IF a >= 0 THEN a \div b ELSE -((-a) \div b)

\* lfs.clamp
clamp(x, lo, hi) == Max2(lo, Min2(hi, x))

\* -------------------------------------------------------------- Interpreter
InterpreterArgsOkPolarityOnly(pol, on, off) == pol \in {"dark", "light"}

\* Interpreter.__init__: the arguments it accepts; it raises ValueError on
\* the others
InterpreterArgsOk(pol, on, off) ==
    /\ pol \in {"dark", "light"}
    /\ ~(off >= on)

\* contrast = max(x0, x1, x2) - min(x0, x1, x2)
Contrast(r) ==
    Max2(r[1], Max2(r[2], r[3])) - Min2(r[1], Min2(r[2], r[3]))

ConfidenceUnclamped(c) ==
    ((c - contrast_off) * OS) \div (contrast_on - contrast_off)

ConfidenceFromZero(c) == clamp((c * OS) \div contrast_on, 0, OS)

\* conf = clamp((contrast - contrast_off) / (contrast_on - contrast_off), 0, 1)
Confidence(c) ==
    clamp(((c - contrast_off) * OS) \div (contrast_on - contrast_off), 0, OS)

HysteresisOneThreshold(trk, c) == c >= contrast_on

HysteresisSwapped(trk, c) ==
    IF trk THEN ~(c < contrast_on) ELSE c >= contrast_off

\* the hysteresis state machine: the value of _tracking after it
Hysteresis(trk, c) ==
    IF trk
    THEN (IF c < contrast_off THEN FALSE ELSE TRUE)
    ELSE (IF c >= contrast_on THEN TRUE ELSE FALSE)

Score3NoFlip(r, i) == 3 * r[i] - (r[1] + r[2] + r[3])

\* 3 * score[i]: the deviation from the local mean, sign-flipped for "dark"
Score3(r, i) ==
    LET dev3 == 3 * r[i] - (r[1] + r[2] + r[3])
    IN  IF polarity = "dark" THEN -dev3 ELSE dev3

\* 3 * w[i]: positive evidence only
W3(r, i) == Max2(0, Score3(r, i))

\* 3 * ssum
Ssum3(r) == W3(r, 1) + W3(r, 2) + W3(r, 3)

EvidenceBelowEpsCoarse(r) == Ssum3(r) < 3 * contrast_on

\* ssum < 1e-6
EvidenceBelowEps(r) == Ssum3(r) * EpsDen < 3

\* the centroid offset (w0 - w2) / (ssum + 1e-9), clamped, in 1/OS; the
\* 1e-9 keeps the division defined when there is no evidence (0 / 1e-9 = 0)
Centroid(r) ==
    IF Ssum3(r) = 0 THEN 0
    ELSE clamp(TDiv((W3(r, 1) - W3(r, 3)) * OS, Ssum3(r)), -OS, OS)

DeadbandNone(o) == o

\* if abs(offset) < deadband: offset = 0.0
Deadband(o) == IF Abs(o) < deadband THEN 0 ELSE o

\* (1 - a) * ema + a * offset
Smooth(ema, o) ==
    TDiv((Cent - offset_alpha) * ema + offset_alpha * o, Cent)

FrozenOffsetDecayed(ema) == TDiv((Cent - offset_alpha) * ema, Cent)

\* the offset a Lost call leaves in _offset_ema and returns: the stored one
FrozenOffset(ema) == ema

ModeAfterLatch(trk, r) ==
    IF trk \/ Contrast(r) >= contrast_on THEN "track" ELSE "lost"

\* the mode process reports for reading r when _tracking is trk on entry:
\* "lost" from the hysteresis, "lost" from the evidence guard, else "track"
ModeAfter(trk, r) ==
    IF ~Hysteresis(trk, Contrast(r)) THEN "lost"
    ELSE IF EvidenceBelowEps(r) THEN "lost"
    ELSE "track"

\* Interpreter.process(r)
Process(r) ==
    LET conf == Confidence(Contrast(r))
        mode == ModeAfter(tracking, r)
    IN  /\ readings' = r
        /\ trackingIn' = tracking
        /\ UNCHANGED <<polarity, contrast_on, contrast_off>>
        /\ IF mode = "lost"
           THEN /\ tracking' = FALSE
                /\ offset_ema' = FrozenOffset(offset_ema)
                /\ trackOffset' = trackOffset
                /\ est' = [offset |-> FrozenOffset(offset_ema), conf |-> conf,
                           mode |-> "lost"]
           ELSE LET ema == Deadband(Smooth(offset_ema, Deadband(Centroid(r))))
                IN  /\ tracking' = TRUE
                    /\ offset_ema' = ema
                    /\ trackOffset' = ema
                    /\ est' = [offset |-> ema, conf |-> conf, mode |-> "track"]

\* Interpreter.__init__ called with any of the arguments; nothing processed
\* yet
InterpInit ==
    /\ polarity \in PolarityArgs
    /\ contrast_on \in ContrastOnArgs
    /\ contrast_off \in ContrastOffArgs
    /\ tracking = FALSE
    /\ offset_ema = 0
    /\ readings = <<0, 0, 0>>
    /\ trackingIn = FALSE
    /\ trackOffset = 0
    /\ est = [offset |-> 0, conf |-> 0, mode |-> "none"]

\* --------------------------------------------------------------- Controller
Sign(o) == IF o > 0 THEN 1 ELSE IF o < 0 THEN -1 ELSE 0

\* target = kp_deg * offset, in 1/AS degree
TrackTarget(offset) == TDiv(cfg.kp_deg * offset * AS, OS)

\* P = max(0.4, search_period_s), in 1/TS s
SweepPeriod == (Max2(MinPeriod, cfg.search_period_s) * TS) \div 10

SearchTargetHoldUnsigned(t, sign) ==
    IF t * Cent < hold_last_s * TS
    THEN sign * TDiv(HoldFraction * search_max_deg * AS, 10)
    ELSE LET P == SweepPeriod
             m == t % P
             tri == IF 2 * m < P THEN 4 * m - P ELSE 3 * P - 4 * m
         IN  TDiv(search_max_deg * AS * tri, P) + sign * SweepBias * AS

SearchTargetNoModulo(t, sign) ==
    IF t * Cent < hold_last_s * TS /\ sign # 0
    THEN sign * TDiv(HoldFraction * search_max_deg * AS, 10)
    ELSE LET P == SweepPeriod
             tri == IF 2 * t < P THEN 4 * t - P ELSE 3 * P - 4 * t
         IN  TDiv(search_max_deg * AS * tri, P) + sign * SweepBias * AS

\* the Lost target after t (1/TS s) of loss, toward side sign: the hold
\* toward the last side, then the triangle sweep with its bias
SearchTarget(t, sign) ==
    IF t * Cent < hold_last_s * TS /\ sign # 0
    THEN sign * TDiv(HoldFraction * search_max_deg * AS, 10)
    ELSE LET P == SweepPeriod
             m == t % P
             tri == IF 2 * m < P THEN 4 * m - P ELSE 3 * P - 4 * m
         IN  TDiv(search_max_deg * AS * tri, P) + sign * SweepBias * AS

ClampTargetNone(target) == target

\* target = clamp(target, -max_deg, max_deg)
ClampTarget(target) == clamp(target, -max_deg * AS, max_deg * AS)

MaxDeltaUnlimited(dt) == 2 * max_deg * AS

\* max_delta = max_slew * max(1e-3, dt), in 1/AS degree
MaxDelta(dt) ==
    (cfg.max_slew * Max2(DS \div MinDtDen, dt) * AS) \div DS

\* angle = (1 - a) * prev + a * limited = prev + a * (limited - prev),
\* cut to the resolution toward prev
Blend(prev, limited) == prev + TDiv(angle_alpha * (limited - prev), Cent)

\* Controller._slew_and_smooth: the angle it stores, commands and returns
SlewAndSmooth(target, prev, dt) ==
    LET tgt     == ClampTarget(target)
        delta   == clamp(tgt - prev, -MaxDelta(dt), MaxDelta(dt))
        limited == prev + delta
    IN  Blend(prev, limited)

SpeedCmdNoFloor(offset, conf, mode) ==
    IF mode # "track" THEN cfg.search_speed
    ELSE clamp(TDiv(cfg.base_speed * (OS * Cent - speed_scale * (OS - conf)),
                    OS * Cent), 0, SpeedMax)

SpeedCmdScaledWhenLost(offset, conf, mode) ==
    clamp(TDiv(cfg.base_speed * (OS * Cent - speed_scale * (OS - conf)),
               OS * Cent), cfg.min_speed, SpeedMax)

\* Controller.speed_cmd
SpeedCmd(offset, conf, mode) ==
    IF mode # "track" THEN cfg.search_speed
    ELSE LET off_term  == Min2(OS, Abs(offset))
             conf_term == OS - clamp(conf, 0, OS)
             worst     == Max2(off_term, conf_term)
             s == TDiv(cfg.base_speed * (OS * Cent - speed_scale * worst),
                       OS * Cent)
         IN  clamp(s, cfg.min_speed, SpeedMax)

LostSinceRestamped(mode, clock) == IF mode = "track" THEN None ELSE clock

\* _lost_since after steer_angle(.., mode, ..) that read the clock as clock
\* (Lost only): cleared in Track, stamped when unset in Lost, else kept
LostSince(mode, clock) ==
    IF mode = "track" THEN None
    ELSE IF lost_since = None THEN clock ELSE lost_since

LastOffsetFollowsEstimate(mode, offset) == offset

\* _last_offset after steer_angle: assigned in the Track branch only
LastOffset(mode, offset) == IF mode = "track" THEN offset ELSE last_offset

\* Controller.steer_angle(offset, conf, mode, dt); in Lost it reads the
\* clock, which has advanced by adv since it was last read
SteerAngle(offset, conf, mode, dt, adv) ==
    /\ IF mode = "track"
       THEN LET angle == SlewAndSmooth(TrackTarget(offset), prev_angle, dt)
            IN  /\ steer_target' = TrackTarget(offset)
                /\ last_offset' = LastOffset(mode, offset)
                /\ lost_since' = LostSince(mode, now)
                /\ now' = now
                /\ prev_angle' = angle
                /\ servo' = angle
       ELSE LET since == LostSince(mode, now + adv)
                t     == (now + adv) - since
                angle == SlewAndSmooth(SearchTarget(t, Sign(last_offset)),
                                       prev_angle, dt)
            IN  /\ steer_target' = SearchTarget(t, Sign(last_offset))
                /\ now' = now + adv
                /\ lost_since' = since
                /\ last_offset' = LastOffset(mode, offset)
                /\ prev_angle' = angle
                /\ servo' = angle
    /\ UNCHANGED cfg

\* Controller.__init__
ControllerInit ==
    /\ cfg \in ControllerArgs
    /\ steer_target = 0
    /\ prev_angle = 0
    /\ last_offset = 0
    /\ lost_since = None
    /\ now = 0
    /\ servo = 0
    /\ speed = None

\* ------------------------------------------------------------------- Sensor
\* avg = [v / oversample for v in acc], in 1/Cent, for a batch of reads
BatchAvg(batch) ==
    [i \in 1..3 |->
        ((batch[1][i] + batch[2][i] + batch[3][i]) * Cent) \div oversample]

SensorEmaUnfiltered(old, batch) == BatchAvg(batch)

SensorEmaFedBackTruncated(old, batch) ==
    IF old = <<>> THEN BatchAvg(batch)
    ELSE [i \in 1..3 |->
            TDiv((Cent - ema_alpha) * TDiv(old[i], Cent) * Cent
                     + ema_alpha * BatchAvg(batch)[i], Cent)]

\* Sensor.read: the new _ema
SensorEma(old, batch) ==
    IF old = <<>> THEN BatchAvg(batch)
    ELSE [i \in 1..3 |->
            TDiv((Cent - ema_alpha) * old[i] + ema_alpha * BatchAvg(batch)[i],
                 Cent)]

\* Sensor.read: what it returns, [int(v) for v in self._ema]
SensorOut(e) == <<TDiv(e[1], Cent), TDiv(e[2], Cent), TDiv(e[3], Cent)>>

\* ---------------------------------------------------------- line_follow_loop
SetDir(a) == [cmd |-> "set_dir_servo_angle", arg |-> a]
Forward(v) == [cmd |-> "forward", arg |-> v]
StopCmd == [cmd |-> "stop", arg |-> 0]

\* the loop's period dt in clock units
DtClock == (cfg.dt * TS) \div DS

\* the statements of the try body
TryPcs == {"t0", "read", "process", "steer", "speed", "forward", "sleep"}

HandlerTargetExceptOnly(e) == IF e = "KeyboardInterrupt" THEN "stop" ELSE "done"

\* where control goes when exception e leaves the try body: the finally
\* block ("stop") for every exception, through "except ...: pass" for
\* KeyboardInterrupt
HandlerTarget(e) == "stop"

ShutdownCmdRecenterOnly(at) == SetDir(0)

\* the call the finally block makes at pc = at
ShutdownCmd(at) == IF at = "stop" THEN StopCmd ELSE SetDir(0)

\* an exception e is raised at the current statement of the try body
Raise(e) ==
    /\ exc' = (IF e = "KeyboardInterrupt" THEN "none" ELSE e)
    /\ pc' = HandlerTarget(e)
    /\ shutAt' = (IF HandlerTarget(e) = "stop" THEN Len(cmds) ELSE shutAt)

\* t0 = time.time()
LoopT0 ==
    /\ pc = "t0" /\ ticks < MaxTicks
    /\ t0' = now
    /\ starts' = Append(starts, now)
    /\ ticks' = ticks + 1
    /\ pc' = "read"
    /\ UNCHANGED <<ivars, est, cvars, sensor_ema, raws, batches, sensed,
                   events, waits, exc, cmds, shutAt, mvars, bvars>>

\* readings = sensor.read()
LoopRead ==
    /\ pc = "read"
    /\ \E scene \in Scenes, lat \in ReadLatencies :
        /\ sensor_ema' = SensorEma(sensor_ema, <<scene, scene, scene>>)
        /\ raws' = Append(raws, scene)
        /\ batches' = Append(batches, <<scene, scene, scene>>)
        /\ now' = now + lat
    /\ sensed' = SensorOut(sensor_ema')
    /\ events' = Append(events, "read")
    /\ pc' = "process"
    /\ UNCHANGED <<ivars, est, cfg, steer_target, prev_angle, last_offset,
                   lost_since, servo, speed, starts, waits, ticks, t0, exc,
                   cmds, shutAt, mvars, bvars>>

LoopReadFailsSteers ==
    /\ pc = "read"
    /\ Raise("SensorError")
    /\ cmds' = Append(cmds, SetDir(prev_angle))
    /\ UNCHANGED <<ivars, est, cvars, sensor_ema, raws, batches, sensed,
                   events, starts, waits, ticks, t0, mvars, bvars>>

\* sensor.read() fails: an ADC read raises before _ema is assigned
LoopReadFails ==
    /\ pc = "read"
    /\ Raise("SensorError")
    /\ UNCHANGED <<ivars, est, cvars, sensor_ema, raws, batches, sensed,
                   events, starts, waits, ticks, t0, cmds, mvars, bvars>>

\* offset, conf, mode = interpreter.process(readings)
LoopProcess ==
    /\ pc = "process"
    /\ Process(sensed)
    /\ events' = Append(events, "process")
    /\ pc' = "steer"
    /\ UNCHANGED <<cvars, sensor_ema, raws, batches, sensed, starts, waits,
                   ticks, t0, exc, cmds, shutAt, mvars, bvars>>

\* angle = controller.steer_angle(offset, conf, mode, dt)
LoopSteer ==
    /\ pc = "steer"
    /\ SteerAngle(est.offset, est.conf, est.mode, cfg.dt, 0)
    /\ cmds' = Append(cmds, SetDir(servo'))
    /\ events' = Append(events, "steer")
    /\ pc' = "speed"
    /\ UNCHANGED <<ivars, est, speed, sensor_ema, raws, batches, sensed,
                   starts, waits, ticks, t0, exc, shutAt, mvars, bvars>>

\* speed = controller.speed_cmd(offset, conf, mode)
LoopSpeed ==
    /\ pc = "speed"
    /\ speed' = SpeedCmd(est.offset, est.conf, est.mode)
    /\ pc' = "forward"
    /\ UNCHANGED <<ivars, est, cfg, steer_target, prev_angle, last_offset,
                   lost_since, now, servo, sensor_ema, raws, batches,
                   sensed, events, starts, waits, ticks, t0, exc, cmds,
                   shutAt, mvars, bvars>>

LoopForwardSkipped ==
    /\ pc = "forward"
    /\ pc' = "sleep"
    /\ UNCHANGED <<ivars, est, cvars, sensor_ema, raws, batches, sensed,
                   events, starts, waits, ticks, t0, exc, cmds, shutAt,
                   mvars, bvars>>

\* car.forward(speed)
LoopForward ==
    /\ pc = "forward"
    /\ cmds' = Append(cmds, Forward(speed))
    /\ events' = Append(events, "forward")
    /\ pc' = "sleep"
    /\ UNCHANGED <<ivars, est, cvars, sensor_ema, raws, batches, sensed,
                   starts, waits, ticks, t0, exc, shutAt, mvars, bvars>>

\* car.forward(speed) fails
LoopForwardFails ==
    /\ pc = "forward"
    /\ Raise("ActuatorError")
    /\ UNCHANGED <<ivars, est, cvars, sensor_ema, raws, batches, sensed,
                   events, starts, waits, ticks, t0, cmds, mvars, bvars>>

\* elapsed = time.time() - t0; time.sleep(max(0.0, dt - elapsed))
\* a wait that aims at the schedule start + k * dt of the first tick
SleepArgCatchUp == Max2(0, starts[1] + ticks * DtClock - now)

\* elapsed = time.time() - t0; the argument of time.sleep
SleepArg == Max2(0, DtClock - (now - t0))

LoopSleep ==
    /\ pc = "sleep"
    /\ waits' = Append(waits, SleepArg)
    /\ now' = now + SleepArg
    /\ events' = Append(events, "sleep")
    /\ pc' = "t0"
    /\ UNCHANGED <<ivars, est, cfg, steer_target, prev_angle, last_offset,
                   lost_since, servo, speed, sensor_ema, raws, batches,
                   sensed, starts, ticks, t0, exc, cmds, shutAt, mvars,
                   bvars>>

\* KeyboardInterrupt is delivered while the try body runs, at any statement
Interrupt ==
    /\ pc \in TryPcs
    /\ Raise("KeyboardInterrupt")
    /\ UNCHANGED <<ivars, est, cvars, sensor_ema, raws, batches, sensed,
                   events, starts, waits, ticks, t0, cmds, mvars, bvars>>

\* finally: car.stop(), then car.set_dir_servo_angle(0); then the function
\* returns, or the exception in flight propagates
Finally ==
    /\ pc \in {"stop", "center"}
    /\ cmds' = Append(cmds, ShutdownCmd(pc))
    /\ servo' = (IF ShutdownCmd(pc).cmd = "set_dir_servo_angle"
                 THEN ShutdownCmd(pc).arg ELSE servo)
    /\ pc' = (IF pc = "stop" THEN "center" ELSE "done")
    /\ UNCHANGED <<ivars, est, cfg, steer_target, prev_angle, last_offset,
                   lost_since, now, speed, sensor_ema, raws, batches,
                   sensed, events, starts, waits, ticks, t0, exc, shutAt,
                   mvars, bvars>>

\* main(): the constructors have returned; Interpreter's has not when it
\* raised ValueError
Constructed == InterpreterArgsOk(polarity, contrast_on, contrast_off)

\* the state when line_follow_loop is entered, or when main() has ended on
\* a constructor's error without entering it
LoopInit ==
    /\ sensor_ema = <<>>
    /\ raws = <<>>
    /\ batches = <<>>
    /\ sensed = <<0, 0, 0>>
    /\ events = <<>>
    /\ starts = <<>>
    /\ waits = <<>>
    /\ pc = (IF Constructed THEN "t0" ELSE "config_error")
    /\ ticks = 0
    /\ t0 = 0
    /\ exc = (IF Constructed THEN "none" ELSE "ValueError")
    /\ cmds = <<>>
    /\ shutAt = None

\* main(): construct, then run line_follow_loop
\* no maneuver has been called, no I2C method either
NoManeuver ==
    /\ maneuver = [name |-> "none", speed |-> 0, steering |-> 0,
                   duration |-> 0, dir_max |-> 0]
    /\ mip = 0
    /\ slept = 0
NoI2C ==
    /\ i2c_attempts = <<>>
    /\ i2c_ret = [state |-> "idle", value |-> "none"]

Init == InterpInit /\ ControllerInit /\ LoopInit /\ NoManeuver /\ NoI2C
Next ==
    \/ LoopT0 \/ LoopRead \/ LoopReadFails \/ LoopProcess \/ LoopSteer
    \/ LoopSpeed \/ LoopForward \/ LoopForwardFails \/ LoopSleep
    \/ Interrupt \/ Finally
Spec == Init /\ [][Next]_vars

\* a caller feeding Interpreter.process any reading
ProcessCall ==
    /\ pc # "config_error"
    /\ \E r \in Readings : Process(r)
    /\ UNCHANGED <<cvars, lvars, mvars, bvars>>

InitInterp ==
    /\ InterpInit
    /\ ControllerInit /\ cfg.dt = 800 /\ cfg.kp_deg = kp_deg
    /\ LoopInit /\ NoManeuver /\ NoI2C
NextInterp == ProcessCall
SpecInterp == InitInterp /\ [][NextInterp]_vars

\* a caller driving the Controller as the loop body does, with any estimate:
\* steer_angle(offset, conf, mode, dt), then speed_cmd(offset, conf, mode)
ControllerCall ==
    \E o \in OffsetArgs, c \in ConfArgs, m \in {"track", "lost"},
       adv \in 0..MaxAdvance :
        /\ m = "lost" => now + adv <= MaxNow
        /\ m = "track" => adv = 0
        /\ est' = [offset |-> o, conf |-> c, mode |-> m]
        /\ SteerAngle(o, c, m, cfg.dt, adv)
        /\ speed' = SpeedCmd(o, c, m)
        /\ UNCHANGED <<ivars, lvars, mvars, bvars>>

InitCtl ==
    /\ InterpInit /\ polarity = "dark" /\ contrast_off = ContrastOffDefault
    /\ ControllerInit /\ LoopInit /\ NoManeuver /\ NoI2C
NextCtl == ControllerCall
SpecCtl == InitCtl /\ [][NextCtl]_vars

\* a sustained loss: the Controller is called in Track at most once, as its
\* first call, and in Lost from then on, the clock advancing between calls
FirstTrackCall ==
    /\ est.mode = "none"
    /\ \E o \in OffsetArgs, c \in ConfArgs :
        /\ est' = [offset |-> o, conf |-> c, mode |-> "track"]
        /\ SteerAngle(o, c, "track", cfg.dt, 0)
        /\ speed' = SpeedCmd(o, c, "track")
    /\ UNCHANGED <<ivars, lvars, mvars, bvars>>

SustainedLostCall ==
    /\ \E c \in ConfArgs, adv \in 1..MaxAdvance :
        /\ now + adv <= MaxSweepNow
        /\ est' = [offset |-> last_offset, conf |-> c, mode |-> "lost"]
        /\ SteerAngle(last_offset, c, "lost", cfg.dt, adv)
        /\ speed' = SpeedCmd(last_offset, c, "lost")
    /\ UNCHANGED <<ivars, lvars, mvars, bvars>>

InitSweep == InitCtl
NextSweep == FirstTrackCall \/ SustainedLostCall
SpecSweep == InitSweep /\ [][NextSweep]_vars

\* a caller of Sensor.read; within one call the oversampling passes may see
\* different scenes
Batches == {<<a, b, c>> : a \in Scenes, b \in Scenes, c \in Scenes}
SensorRead ==
    /\ Len(batches) < MaxReads
    /\ \E batch \in Batches :
        /\ sensor_ema' = SensorEma(sensor_ema, batch)
        /\ batches' = Append(batches, batch)
    /\ sensed' = SensorOut(sensor_ema')
    /\ UNCHANGED <<ivars, est, cvars, raws, events, starts, waits, pc,
                   ticks, t0, exc, cmds, shutAt, mvars, bvars>>

InitSensor == InitCtl /\ cfg.dt = 800 /\ cfg.kp_deg = kp_deg
NextSensor == SensorRead
SpecSensor == InitSensor /\ [][NextSensor]_vars

\* ---------------------------------------------------------------- maneuvers
\* maneuvers.py: each function is a fixed list of statements on the car and
\* on time.sleep; times are in 1/Cent s
Backward(v) == [cmd |-> "backward", arg |-> v]
Sleep(d) == [cmd |-> "sleep", arg |-> d]

\* int(0.90 * px.DIR_MAX)
HardTurn(dir_max) == (90 * dir_max) \div Cent

DriveRecentersFirst(spd, steering, duration) ==
    <<SetDir(steering), Sleep(SERVO_SETTLE),
      IF spd >= 0 THEN Forward(spd) ELSE Backward(Abs(spd)),
      Sleep(duration), SetDir(0), StopCmd>>

\* drive(px, speed, steering, duration)
Drive(spd, steering, duration) ==
    <<SetDir(steering), Sleep(SERVO_SETTLE),
      IF spd >= 0 THEN Forward(spd) ELSE Backward(Abs(spd)),
      Sleep(duration), StopCmd, SetDir(0)>>

\* parallel_park_left(px, speed)
ParallelParkLeft(spd, dir_max) ==
    LET H == HardTurn(dir_max)
    IN  <<SetDir(-H), Sleep(SERVO_SETTLE), Backward(spd), Sleep(ttd),
          SetDir(H), Sleep(SERVO_SETTLE), Backward(spd), Sleep(ttd),
          StopCmd, SetDir(0)>>

\* parallel_park_right(px, speed)
ParallelParkRight(spd, dir_max) ==
    LET H == HardTurn(dir_max)
    IN  <<SetDir(H), Sleep(SERVO_SETTLE), Backward(spd), Sleep(ttd),
          SetDir(-H), Sleep(SERVO_SETTLE), Backward(spd), Sleep(ttd),
          StopCmd, SetDir(0)>>

\* k_turn_left(px, speed); the last leg lasts 0.65 * ttd
KTurnLeft(spd, dir_max) ==
    LET H == HardTurn(dir_max)
    IN  <<SetDir(-H), Sleep(SERVO_SETTLE), Forward(spd), Sleep(ttd), StopCmd,
          SetDir(H), Sleep(SERVO_SETTLE), Backward(spd), Sleep(ttd), StopCmd,
          SetDir(-H), Sleep(SERVO_SETTLE), Forward(spd),
          Sleep((65 * ttd) \div Cent), StopCmd,
          SetDir(0)>>

\* k_turn_right(px, speed)
KTurnRight(spd, dir_max) ==
    LET H == HardTurn(dir_max)
    IN  <<SetDir(H), Sleep(SERVO_SETTLE), Forward(spd), Sleep(ttd), StopCmd,
          SetDir(-H), Sleep(SERVO_SETTLE), Backward(spd), Sleep(ttd), StopCmd,
          SetDir(H), Sleep(SERVO_SETTLE), Forward(spd),
          Sleep((65 * ttd) \div Cent), StopCmd,
          SetDir(0)>>

\* the statements of the maneuver called
Script ==
    CASE maneuver.name = "drive" ->
            Drive(maneuver.speed, maneuver.steering, maneuver.duration)
      [] maneuver.name = "parallel_park_left" ->
            ParallelParkLeft(maneuver.speed, maneuver.dir_max)
      [] maneuver.name = "parallel_park_right" ->
            ParallelParkRight(maneuver.speed, maneuver.dir_max)
      [] maneuver.name = "k_turn_left" ->
            KTurnLeft(maneuver.speed, maneuver.dir_max)
      [] maneuver.name = "k_turn_right" ->
            KTurnRight(maneuver.speed, maneuver.dir_max)
      [] OTHER -> <<>>

\* the next statement of the maneuver runs
Statement ==
    /\ mip < Len(Script)
    /\ LET st == Script[mip + 1]
       IN  IF st.cmd = "sleep"
           THEN /\ slept' = slept + st.arg
                /\ UNCHANGED <<cmds, servo>>
           ELSE /\ cmds' = Append(cmds, st)
                /\ servo' = (IF st.cmd = "set_dir_servo_angle" THEN st.arg
                             ELSE servo)
                /\ UNCHANGED slept
    /\ mip' = mip + 1
    /\ UNCHANGED <<ivars, est, cfg, steer_target, prev_angle, last_offset,
                   lost_since, now, speed, sensor_ema, raws, batches,
                   sensed, events, starts, waits, pc, ticks, t0, exc,
                   shutAt, maneuver, bvars>>

DriveStep == maneuver.name = "drive" /\ Statement
ParallelParkLeftStep == maneuver.name = "parallel_park_left" /\ Statement
ParallelParkRightStep == maneuver.name = "parallel_park_right" /\ Statement
KTurnLeftStep == maneuver.name = "k_turn_left" /\ Statement
KTurnRightStep == maneuver.name = "k_turn_right" /\ Statement

\* the arguments the maneuvers are called with: speeds around the default
\* sp = 60, reverse and standstill for drive, two steering ranges
SpeedArgs == {30, 60}
DriveSpeedArgs == {-40, 0, 40}
SteeringArgs == {-20, 0, 20}
DurationArgs == {0, 100}
DirMaxArgs == {30, 35}
ManeuverCalls ==
    {[name |-> "drive", speed |-> v, steering |-> a, duration |-> d,
      dir_max |-> 0] :
        v \in DriveSpeedArgs, a \in SteeringArgs, d \in DurationArgs}
    \cup {[name |-> n, speed |-> v, steering |-> 0, duration |-> 0,
           dir_max |-> m] :
            n \in {"parallel_park_left", "parallel_park_right",
                   "k_turn_left", "k_turn_right"},
            v \in SpeedArgs, m \in DirMaxArgs}

InitManeuver ==
    /\ InterpInit /\ polarity = "dark" /\ contrast_off = ContrastOffDefault
    /\ ControllerInit /\ cfg.dt = 800 /\ cfg.kp_deg = kp_deg
    /\ LoopInit /\ NoI2C
    /\ maneuver \in ManeuverCalls
    /\ mip = 0
    /\ slept = 0
NextManeuver ==
    \/ DriveStep \/ ParallelParkLeftStep \/ ParallelParkRightStep
    \/ KTurnLeftStep \/ KTurnRightStep
SpecManeuver == InitManeuver /\ [][NextManeuver]_vars

\* ---------------------------------------------------------------- I2C retry
\* _retry_wrapper(func): "for _ in range(self.RETRY): try: return func(...)
\* except OSError: continue" and "else: return False".
\* what the wrapped bus operation can do: return a value, raise OSError or
\* one of its subclasses, raise something else
BusValues == {"0x00", "0x07", "0xFF"}
OSErrors == {"OSError", "TimeoutError"}
OtherErrors == {"TypeError"}

CaughtAnything(e) == TRUE

\* except OSError
Caught(e) == e \in OSErrors

\* one more pass of the for loop: func returns, and so does the wrapper
AttemptReturns ==
    /\ i2c_ret.state = "running" /\ Len(i2c_attempts) < RETRY
    /\ \E v \in BusValues :
        /\ i2c_attempts' = Append(i2c_attempts, [kind |-> "return", value |-> v])
        /\ i2c_ret' = [state |-> "returned", value |-> v]
    /\ UNCHANGED <<ivars, est, cvars, lvars, mvars>>

\* one more pass of the for loop: func raises
AttemptRaises ==
    /\ i2c_ret.state = "running" /\ Len(i2c_attempts) < RETRY
    /\ \E e \in OSErrors \cup OtherErrors :
        /\ i2c_attempts' = Append(i2c_attempts, [kind |-> "raise", value |-> e])
        /\ i2c_ret' = (IF Caught(e) THEN i2c_ret
                       ELSE [state |-> "raised", value |-> e])
    /\ UNCHANGED <<ivars, est, cvars, lvars, mvars>>

\* the for loop has run out: return False
RetriesExhausted ==
    /\ i2c_ret.state = "running" /\ Len(i2c_attempts) = RETRY
    /\ i2c_ret' = [state |-> "returned", value |-> "False"]
    /\ UNCHANGED <<ivars, est, cvars, lvars, mvars, i2c_attempts>>

\* a wrapped method of I2C has been called
InitI2C ==
    /\ InterpInit /\ polarity = "dark" /\ contrast_off = ContrastOffDefault
    /\ ControllerInit /\ cfg.dt = 800 /\ cfg.kp_deg = kp_deg
    /\ LoopInit /\ NoManeuver
    /\ i2c_attempts = <<>>
    /\ i2c_ret = [state |-> "running", value |-> "none"]
NextI2C == AttemptReturns \/ AttemptRaises \/ RetriesExhausted
SpecI2C == InitI2C /\ [][NextI2C]_vars

\* ------------------------------------------------- claims on the Interpreter
Called == est.mode # "none"
AllEqual(r) == r[1] = r[2] /\ r[2] = r[3]
InBand(c) == contrast_off < c /\ c < contrast_on

C3_EqualIsLost ==
    (Called /\ AllEqual(readings) /\ contrast_off > 0) =>
        (est.mode = "lost" /\ ~tracking)

\* three equal channels were processed in Track, a nonzero offset stored
C3_Witness ==
    /\ Called /\ AllEqual(readings) /\ contrast_off > 0
    /\ trackingIn /\ offset_ema # 0 /\ est.mode = "lost"

\* C10: every estimate has offset in [-1, 1], confidence in [0, 1] and mode
\* track or lost, and the confidence is that of the current sample:
\* 1 at or above contrast_on, 0 at or below contrast_off, linear in between.
C10_EstimateRange ==
    Called =>
        LET c == Contrast(readings)
        IN  /\ est.offset \in -OS..OS
            /\ est.conf \in 0..OS
            /\ est.mode \in {"track", "lost"}
            /\ est.conf =
                 IF c >= contrast_on THEN OS
                 ELSE IF c <= contrast_off THEN 0
                 ELSE ((c - contrast_off) * OS) \div (contrast_on - contrast_off)

\* a Lost estimate carrying a nonzero frozen offset and a partial confidence
C10_Witness ==
    /\ est.mode = "lost" /\ est.offset # 0
    /\ est.conf > 0 /\ est.conf < OS

\* C11: a process call that reports Lost leaves the stored smoothed offset
\* as it was and returns it: the offset reported in Lost is the offset the
\* most recent Track call returned (0 if there has been none), however many
\* Lost calls follow one another.
C11_LostFreezesOffset ==
    est.mode = "lost" =>
        /\ est.offset = trackOffset
        /\ offset_ema = trackOffset

\* a second Lost call in a row, on unequal readings, reporting the nonzero
\* offset of the Track call before them
C11_Witness ==
    /\ est.mode = "lost" /\ ~trackingIn
    /\ trackOffset # 0 /\ est.offset = trackOffset
    /\ ~AllEqual(readings)

\* C12: every offset process reports, in Track and in Lost, is exactly 0 or
\* at least deadband in magnitude; in a Track call the centroid is snapped
\* to 0 when it is below deadband before it enters the smoother, and the
\* smoothed value is snapped again before it is stored and returned.
C12_Deadband ==
    /\ [](Called => (est.offset = 0 \/ Abs(est.offset) >= deadband))
    /\ [][est'.mode = "track" =>
            LET c   == Centroid(readings')
                cin == IF Abs(c) < deadband THEN 0 ELSE c
                sm  == TDiv((Cent - offset_alpha) * offset_ema
                                + offset_alpha * cin, Cent)
            IN  /\ est'.offset = (IF Abs(sm) < deadband THEN 0 ELSE sm)
                /\ offset_ema' = est'.offset]_vars

\* a Track call whose centroid was nonzero and below deadband, reporting a
\* nonzero offset carried by the smoother
C12_Witness ==
    /\ est.mode = "track"
    /\ Centroid(readings) # 0 /\ Abs(Centroid(readings)) < deadband
    /\ est.offset # 0


\* reading r has its whole value on channel i (1: leftmost, 3: rightmost)
ConcentratedOn(r, i) == r[i] > 0 /\ \A j \in 1..3 : j # i => r[j] = 0

\* C17 as stated: with polarity dark, the first call of a fresh estimator
\* that reports Track on a reading concentrated on channel 0 returns a
\* positive offset, and on a reading concentrated on channel 2 a negative
\* one.
C17_Original ==
    [][(~Called /\ polarity = "dark" /\ est'.mode = "track") =>
        /\ ConcentratedOn(readings', 1) => est'.offset > 0
        /\ ConcentratedOn(readings', 3) => est'.offset < 0]_vars

\* C17 amended: the first call of a fresh estimator that reports Track on a
\* reading concentrated on channel 0 returns a positive offset with
\* polarity light and a negative one with polarity dark (the line is the
\* low reading, under channels 1 and 2); on a reading concentrated on
\* channel 2 it returns a negative offset with light and a positive one
\* with dark.
C17_SignConvention ==
    [][(~Called /\ est'.mode = "track") =>
        /\ ConcentratedOn(readings', 1) =>
             (IF polarity = "light" THEN est'.offset > 0 ELSE est'.offset < 0)
        /\ ConcentratedOn(readings', 3) =>
             (IF polarity = "light" THEN est'.offset < 0 ELSE est'.offset > 0)
      ]_vars

\* polarity dark, a reading concentrated on channel 0 reported Track with
\* the negative offset a fresh estimator gives it
C17_Witness ==
    /\ polarity = "dark" /\ est.mode = "track" /\ ~trackingIn
    /\ ConcentratedOn(readings, 1)
    /\ est.offset < 0 /\ est.offset = Smooth(0, Centroid(readings))

\* C13: constructing an Interpreter with contrast_off >= contrast_on, or
\* with a polarity other than "dark" and "light", fails with an error at
\* construction; no tick and no process call runs with such arguments, so
\* the confidence denominator contrast_on - contrast_off is positive
\* whenever it is used.
C13_ConstructionValidates ==
    /\ (contrast_off >= contrast_on \/ polarity \notin {"dark", "light"}) =>
        /\ exc = "ValueError" /\ pc = "config_error"
        /\ ticks = 0 /\ ~Called /\ cmds = <<>>
    /\ (ticks > 0 \/ Called) =>
        /\ contrast_on - contrast_off > 0
        /\ polarity \in {"dark", "light"}

\* construction with equal thresholds and a valid polarity has failed
C13_Witness ==
    /\ contrast_off = contrast_on /\ polarity = "dark"
    /\ exc = "ValueError" /\ pc = "config_error"

\* C26: with integer readings and contrast_off > 0 the evidence guard of
\* process (ssum < 1e-6 forces Lost) is never taken: whenever the hysteresis
\* leaves the estimator in Track the positive evidence is above 1e-6, so the
\* mode reported is the one the hysteresis thresholds give.
C26_GuardNeverTaken ==
    (Called /\ contrast_off > 0) =>
        LET hyst == IF trackingIn
                    THEN ~(Contrast(readings) < contrast_off)
                    ELSE Contrast(readings) >= contrast_on
        IN  /\ hyst => Ssum3(readings) * EpsDen >= 3
            /\ hyst <=> est.mode = "track"
            /\ hyst <=> tracking

\* a call kept in Track by the contrast_off threshold, on evidence smaller
\* than the contrast
C26_Witness ==
    /\ contrast_off > 0 /\ trackingIn /\ est.mode = "track"
    /\ Contrast(readings) < contrast_on
    /\ Ssum3(readings) > 0 /\ Ssum3(readings) < 3 * Contrast(readings)

\* C27: the hysteresis couples confidence and mode.  A call that switches
\* from Lost to Track reports confidence 1; a call that switches from Track
\* to Lost by the contrast_off threshold reports confidence 0; every Lost
\* report the hysteresis produces has a confidence below 1.
C27_ConfidenceCoupled ==
    Called =>
        LET c == Contrast(readings)
            hystLost == IF trackingIn THEN c < contrast_off
                        ELSE ~(c >= contrast_on)
        IN  /\ (~trackingIn /\ est.mode = "track") => est.conf = OS
            /\ (trackingIn /\ c < contrast_off) =>
                    (est.mode = "lost" /\ est.conf = 0)
            /\ hystLost => (est.mode = "lost" /\ est.conf < OS)

\* Track is left on readings that still differ, by a contrast below
\* contrast_off: the report is Lost with confidence 0
C27_Witness ==
    /\ trackingIn /\ est.mode = "lost" /\ est.conf = 0
    /\ Contrast(readings) > 0 /\ Contrast(readings) < contrast_off

\* ---------------------------------------------------- claims on the Sensor
\* the exponentially weighted history of the batches bs, in 1/Cent: the
\* average of the first, then (1 - a) * history + a * average for each later
\* one, nothing rounded to whole ADC counts on the way
RECURSIVE WeightedHistory(_)
WeightedHistory(bs) ==
    LET last == bs[Len(bs)]
        avg  == [i \in 1..3 |->
                    ((last[1][i] + last[2][i] + last[3][i]) * Cent)
                        \div oversample]
    IN  IF Len(bs) = 1 THEN avg
        ELSE LET h == WeightedHistory(SubSeq(bs, 1, Len(bs) - 1))
             IN  [i \in 1..3 |->
                    TDiv((Cent - ema_alpha) * h[i] + ema_alpha * avg[i], Cent)]

\* C23: the first Sensor.read seeds the EMA with the channel-wise average of
\* its batch, every later one blends (1 - alpha) * ema + alpha * average;
\* the triple returned is the EMA cut to integers while the EMA kept is not
\* cut, so after any sequence of batches the result is the truncation of
\* their exponentially weighted history.
C23_SensorEma ==
    IF batches = <<>> THEN sensor_ema = <<>>
    ELSE /\ sensor_ema = WeightedHistory(batches)
         /\ sensed = [i \in 1..3 |-> TDiv(WeightedHistory(batches)[i], Cent)]

\* three batches read, mixed ones among them; the EMA kept holds a fraction
\* of an ADC count that the returned value has dropped
C23_Witness ==
    /\ Len(batches) = 3 /\ batches[2][1] # batches[2][2]
    /\ sensor_ema[1] % Cent # 0
    /\ sensed[1] * Cent < sensor_ema[1]

\* ------------------------------------------------------ claims on the loop
\* the first k calls on the car are whole ticks: steering, then drive
Paired(k) ==
    /\ k % 2 = 0
    /\ \A i \in 1..k :
         cmds[i].cmd = (IF i % 2 = 1 THEN "set_dir_servo_angle" ELSE "forward")

\* the calls made since the finally block was entered
SinceShutdown == SubSeq(cmds, shutAt + 1, Len(cmds))

\* C4: every exit of line_follow_loop (interrupt, sensor error, an exception
\* of a tick) runs stop() and then set_dir_servo_angle(0) before it returns
\* or propagates, and once that has begun no other call reaches the car.
C4_ShutdownOnEveryExit ==
    /\ pc \in TryPcs => shutAt = None
    /\ (pc \notin TryPcs /\ pc # "config_error") =>
        /\ shutAt # None
        /\ pc \in {"stop", "center", "done"}
        /\ pc = "stop" => SinceShutdown = <<>>
        /\ pc = "center" => SinceShutdown = <<StopCmd>>
        /\ pc = "done" => SinceShutdown = <<StopCmd, SetDir(0)>>

\* the loop ended on a sensor error after driving, stopped and recentred
C4_Witness ==
    /\ pc = "done" /\ exc = "SensorError"
    /\ shutAt >= 2 /\ servo = 0
    /\ cmds[shutAt].cmd = "forward"

C15_SensorErrorPropagates ==
    /\ [][(exc = "none" /\ exc' = "SensorError") =>
            /\ pc = "read" /\ pc' = "stop"
            /\ UNCHANGED <<ivars, est, cvars, cmds, mvars, bvars>>]_vars
    /\ [][exc = "SensorError" =>
            /\ exc' = "SensorError"
            /\ UNCHANGED <<ivars, est, cfg, prev_angle, last_offset,
                           lost_since, speed>>]_vars
    /\ [](exc = "SensorError" =>
            /\ pc \in {"stop", "center", "done"}
            /\ shutAt = 2 * (ticks - 1) /\ Paired(shutAt)
            /\ pc = "done" =>
                 (SinceShutdown = <<StopCmd, SetDir(0)>> /\ servo = 0))

\* the sensor failed in the third tick, after a tick that steered away from
\* centre; the loop has shut down with the error in flight
C15_Witness ==
    /\ exc = "SensorError" /\ pc = "done"
    /\ ticks = 3 /\ shutAt = 4
    /\ prev_angle # 0 /\ servo = 0

\* the scenario of C16: the raw readings were (100,100,100) on the first
\* gray ticks (at least one) and (30,150,150) on every tick since, edge of
\* them; polarity dark
GrayThenEdge(gray, edge) ==
    /\ polarity = "dark" /\ gray >= 1
    /\ Len(raws) = gray + edge
    /\ \A i \in 1..Len(raws) :
         raws[i] = (IF i <= gray THEN <<100, 100, 100>> ELSE <<30, 150, 150>>)
InScenario == \E gray \in 1..Len(raws) : GrayThenEdge(gray, Len(raws) - gray)

\* the step in which interpreter.process returns, and the one in which
\* controller.steer_angle returns, in a tick of line_follow_loop
ProcessStep == pc = "process" /\ pc' = "steer"
SteerStep == pc = "steer" /\ pc' = "speed"
SpeedStep == pc = "speed" /\ pc' = "forward"

\* C16 as stated, in its weakest reading: while the raw readings are
\* (100,100,100) the estimate is Lost with offset 0 and the speed is
\* search_speed; after they have changed to (30,150,150), polarity dark,
\* the tick on which the estimator reports Track has offset > 0 and a
\* positive commanded steering angle (for a positive gain).
C16_Original ==
    /\ [][(ProcessStep /\ InScenario /\ est'.mode = "track") =>
            est'.offset > 0]_vars
    /\ [][(SteerStep /\ InScenario /\ est.mode = "track" /\ cfg.kp_deg > 0) =>
            servo' > 0]_vars

\* C16 amended: while the raw readings are (100,100,100) on every tick the
\* estimate is Lost with offset 0 and the speed is search_speed.  After the
\* raw readings have changed to (30,150,150), polarity dark, the estimator
\* still reports Lost with offset 0 on the tick of the change and until the
\* filtered readings reach contrast_on; on the ticks it reports Track the
\* offset is > 0, and for a positive gain the steering target is positive
\* and the commanded angle lies between the previous commanded angle and
\* the target: it has moved toward the target and may still be negative.
C16_Scenario ==
    /\ [][(ProcessStep /\ GrayThenEdge(Len(raws), 0)) =>
            (est'.mode = "lost" /\ est'.offset = 0)]_vars
    /\ [][(SpeedStep /\ GrayThenEdge(Len(raws), 0)) =>
            speed' = cfg.search_speed]_vars
    /\ [][(ProcessStep /\ InScenario) =>
            /\ GrayThenEdge(Len(raws) - 1, 1) => est'.mode = "lost"
            /\ est'.mode = "track" <=> Contrast(sensed) >= contrast_on
            /\ est'.mode = "lost" => est'.offset = 0
            /\ est'.mode = "track" => est'.offset > 0]_vars
    /\ [][(SteerStep /\ InScenario /\ est.mode = "track" /\ cfg.kp_deg > 0) =>
            /\ steer_target' > 0
            /\ servo' >= Min2(prev_angle, steer_target')
            /\ servo' <= Max2(prev_angle, steer_target')
            /\ prev_angle < 0 => servo' >= prev_angle]_vars

\* one gray tick, then the edge: Track is first reported on the fourth tick
\* after the change, and the angle commanded on that tick is negative
C16_Witness ==
    /\ GrayThenEdge(1, 4) /\ cfg.kp_deg > 0
    /\ pc = "speed" /\ est.mode = "track" /\ est.offset > 0
    /\ steer_target > 0 /\ servo < 0

\* the calls of one tick, in the order line_follow_loop makes them
TickOrder == <<"read", "process", "steer", "forward", "sleep">>
\* the calls the car received before the finally block was entered
TickCmds == IF shutAt = None THEN cmds ELSE SubSeq(cmds, 1, shutAt)

\* C22: ticks do not overlap and each completed tick makes, in this order
\* and once each, the sensor read, the process call, one steering command
\* and one forward command, then waits; a tick begins only after the wait
\* of the tick before it.
C22_TickOrder ==
    LET n    == Len(events)
        k    == Len(TickOrder)
        done == n \div k
        part == n % k
    IN  /\ \A i \in 1..n : events[i] = TickOrder[((i - 1) % k) + 1]
        /\ Len(starts) = ticks /\ Len(waits) = done /\ Len(raws) <= ticks
        /\ IF part = 0 THEN ticks \in {done, done + 1} ELSE ticks = done + 1
        /\ Len(raws) = done + (IF part >= 1 THEN 1 ELSE 0)
        /\ Len(TickCmds) = 2 * done + (IF part >= 4 THEN 2
                                       ELSE IF part >= 3 THEN 1 ELSE 0)
        /\ \A i \in 1..Len(TickCmds) :
             TickCmds[i].cmd =
                 (IF i % 2 = 1 THEN "set_dir_servo_angle" ELSE "forward")
        /\ pc = "t0" => part = 0
        /\ pc = "read" => (part = 0 /\ ticks = done + 1)

\* two ticks have run to completion and the third has read the sensor
C22_Witness ==
    /\ Len(events) = 2 * Len(TickOrder) + 1 /\ pc = "process"
    /\ ticks = 3 /\ Len(cmds) = 4 /\ Len(waits) = 2

\* when tick i's time.sleep returned: the next tick's t0 is taken at once
TickEnd(i) == IF i < Len(starts) THEN starts[i + 1] ELSE now
\* tick i's processing time, from its t0 to its call of time.sleep
TickElapsed(i) == TickEnd(i) - waits[i] - starts[i]

\* C24: each tick ends with a wait of exactly max(0, dt - elapsed), elapsed
\* being the processing time of that tick alone; the wait is never negative,
\* consecutive tick starts are at least dt apart, and the ticks after one
\* that overran dt are not shortened to catch up.
C24_Cadence ==
    /\ \A i \in 1..Len(waits) :
        /\ TickElapsed(i) >= 0
        /\ waits[i] = Max2(0, DtClock - TickElapsed(i))
        /\ waits[i] >= 0
    /\ \A i \in 1..(Len(starts) - 1) :
        /\ starts[i + 1] - starts[i] >= DtClock
        /\ starts[i + 1] - starts[i] = Max2(DtClock, TickElapsed(i))
    /\ \A i \in 1..Len(waits) : \A j \in 1..Len(waits) :
        (i < j /\ TickElapsed(i) > DtClock) =>
            waits[j] + TickElapsed(j) >= DtClock

\* main()'s dt: the first tick overran it and was followed at once, the
\* second took less and was topped up to dt
C24_Witness ==
    /\ Len(waits) >= 2 /\ Len(starts) >= 3 /\ DtClock > 0
    /\ TickElapsed(1) > DtClock /\ waits[1] = 0
    /\ TickElapsed(2) < DtClock /\ waits[2] = DtClock - TickElapsed(2)
    /\ starts[3] - starts[2] = DtClock

\* ------------------------------------------------- claims on the maneuvers
IsMotion(c) == c.cmd \in {"forward", "backward"}

\* C28: every scripted maneuver (drive, parallel_park_left,
\* parallel_park_right, k_turn_left, k_turn_right) that runs to completion
\* ends with stop() followed by set_dir_servo_angle(0) as its last two
\* commands on the car, and gives no forward or backward command after its
\* last stop.
C28_ManeuverEnds ==
    (maneuver.name # "none" /\ mip = Len(Script)) =>
        LET n == Len(cmds)
        IN  /\ n >= 2
            /\ cmds[n - 1] = [cmd |-> "stop", arg |-> 0]
            /\ cmds[n] = [cmd |-> "set_dir_servo_angle", arg |-> 0]
            /\ \A i \in 1..n : IsMotion(cmds[i]) =>
                    \E j \in (i + 1)..n : cmds[j].cmd = "stop"
            /\ servo = 0

\* a k-turn has run to its end: three legs, each stopped, then straightened
C28_Witness ==
    /\ maneuver.name = "k_turn_left" /\ mip = Len(Script)
    /\ Len(cmds) = 10 /\ cmds[9].cmd = "stop" /\ cmds[8].cmd = "forward"
    /\ slept = 3 * SERVO_SETTLE + 2 * ttd + (65 * ttd) \div Cent

\* ------------------------------------------------- claims on the I2C retry
RaisedOSError(a) == a.kind = "raise" /\ a.value \in {"OSError", "TimeoutError"}

\* C29: the retry wrapper calls the wrapped bus operation at most RETRY (5)
\* times; it returns the result of the first attempt that does not raise
\* OSError and makes no further attempt; when all 5 attempts raise OSError
\* it returns False and does not raise; an exception other than OSError
\* propagates at once, from the attempt that raised it.
C29_RetryWrapper ==
    LET n == Len(i2c_attempts)
    IN  /\ n <= 5
        /\ \A i \in 1..(n - 1) : RaisedOSError(i2c_attempts[i])
        /\ i2c_ret.state = "running" =>
                \A i \in 1..n : RaisedOSError(i2c_attempts[i])
        /\ (n > 0 /\ i2c_attempts[n].kind = "return") =>
                i2c_ret = [state |-> "returned",
                           value |-> i2c_attempts[n].value]
        /\ (n > 0 /\ i2c_attempts[n].kind = "raise"
                /\ ~RaisedOSError(i2c_attempts[n])) =>
                i2c_ret = [state |-> "raised", value |-> i2c_attempts[n].value]
        /\ (n > 0 /\ RaisedOSError(i2c_attempts[n])) =>
                \/ i2c_ret.state = "running"
                \/ n = 5 /\ i2c_ret = [state |-> "returned", value |-> "False"]
        /\ i2c_ret.state = "raised" => ~RaisedOSError(i2c_attempts[n])

\* five attempts, each ended by an OSError, the last by a timeout: the
\* wrapper has returned False
C29_Witness ==
    /\ Len(i2c_attempts) = 5
    /\ \A i \in 1..5 : RaisedOSError(i2c_attempts[i])
    /\ i2c_attempts[5].value = "TimeoutError"
    /\ i2c_ret = [state |-> "returned", value |-> "False"]

\* ------------------------------------------------ claims on the Controller
Steered == est.mode # "none"

\* C14 as stated: constructing the Controller with a gain <= 0 fails with a
\* configuration error before the loop starts; line_follow_loop never runs
\* a tick with a gain <= 0.
C14_GainValidated ==
    cfg.kp_deg <= 0 =>
        /\ exc = "ValueError" /\ pc = "config_error"
        /\ ticks = 0 /\ cmds = <<>>

\* C18: lost_since is set exactly when the most recent steer_angle call was
\* in Lost mode; the first Lost call of a run sets it to the clock reading
\* of that call, every later Lost call of the run keeps that value, and a
\* Track call clears it.
C18_LostSinceLifecycle ==
    /\ [](IF est.mode = "lost" THEN lost_since # None ELSE lost_since = None)
    /\ [][(est.mode # "lost" /\ est'.mode = "lost") => lost_since' = now']_vars
    /\ [][(est.mode = "lost" /\ est'.mode = "lost") =>
            lost_since' = lost_since]_vars
    /\ [][est'.mode = "track" => lost_since' = None]_vars

\* a run of Lost calls after a Track call: the clock has moved on since the
\* first of them, whose reading lost_since still holds
C18_Witness ==
    /\ est.mode = "lost" /\ last_offset # 0
    /\ lost_since # None /\ lost_since > 0 /\ now > lost_since

\* the time since the loss began, at the last Lost call, in 1/TS s
ElapsedLost == now - lost_since
\* t (1/TS s) is not below hold_last_s
PastHold(t) == t * Cent >= hold_last_s * TS

\* C19 as stated: in a sustained loss, past hold_last_s, the target before
\* clamp and slew limit is periodic in the elapsed lost time with period
\* search_period_s, whatever search_period_s is configured, and is at most
\* search_max_deg plus the last-side bias in magnitude.
C19_Original ==
    LET P == (cfg.search_period_s * TS) \div 10
    IN  (est.mode = "lost" /\ PastHold(ElapsedLost)) =>
            /\ Abs(steer_target) <= (search_max_deg + SweepBias) * AS
            /\ PastHold(ElapsedLost - P) =>
                 steer_target =
                     SearchTarget(ElapsedLost - P, Sign(last_offset))

\* C19 amended: the period is max(0.4 s, search_period_s): in a sustained
\* loss, past hold_last_s, the target before clamp and slew limit at
\* elapsed time t equals the one at t - max(0.4, search_period_s), and is
\* at most search_max_deg plus the last-side bias in magnitude.
C19_SweepPeriodic ==
    LET P == (Max2(MinPeriod, cfg.search_period_s) * TS) \div 10
    IN  (est.mode = "lost" /\ PastHold(ElapsedLost)) =>
            /\ Abs(steer_target) <= (search_max_deg + SweepBias) * AS
            /\ PastHold(ElapsedLost - P) =>
                 steer_target =
                     SearchTarget(ElapsedLost - P, Sign(last_offset))

\* a loss after the line was seen on one side, one whole period of 1.2 s
\* past the hold window, the sweep away from its extremes
C19_Witness ==
    /\ est.mode = "lost" /\ last_offset # 0
    /\ cfg.search_period_s = search_period_s
    /\ PastHold(ElapsedLost - (search_period_s * TS) \div 10)
    /\ steer_target # 0
    /\ Abs(steer_target) < (search_max_deg - SweepBias) * AS

\* the hold target toward side sign: 0.6 * search_max_deg
HoldTarget(sign) == sign * ((HoldFraction * search_max_deg * AS) \div 10)
\* the triangle sweep at elapsed time t with its bias toward side sign
SweepAt(t, sign) ==
    LET P == (Max2(MinPeriod, cfg.search_period_s) * TS) \div 10
        m == t % P
    IN  TDiv(search_max_deg * AS * (IF 2 * m < P THEN 4 * m - P
                                    ELSE 3 * P - 4 * m), P)
            + sign * SweepBias * AS

\* C20 as stated: on every Lost call made before hold_last_s has elapsed
\* since the loss began the target is 0.6 * search_max_deg with the sign of
\* the last known offset; the triangle sweep is the target only after that.
C20_Original ==
    (est.mode = "lost" /\ ~PastHold(ElapsedLost)) =>
        steer_target = HoldTarget(Sign(last_offset))

\* C20 amended: the hold applies only when the last known offset is not 0.
\* On a Lost call made before hold_last_s has elapsed with a nonzero last
\* known offset the target is 0.6 * search_max_deg with its sign; on every
\* other Lost call (the window has elapsed, or the last known offset is 0,
\* as before the line was ever seen) the target is the triangle sweep.
C20_HoldLast ==
    est.mode = "lost" =>
        steer_target =
            IF ~PastHold(ElapsedLost) /\ last_offset # 0
            THEN HoldTarget(Sign(last_offset))
            ELSE SweepAt(ElapsedLost, Sign(last_offset))

\* a Lost call inside the hold window with no last known side: the target
\* is the sweep, at its negative extreme or on its way up
C20_Witness ==
    /\ est.mode = "lost" /\ last_offset = 0
    /\ ~PastHold(ElapsedLost) /\ ElapsedLost > 0
    /\ steer_target < 0 /\ steer_target = SweepAt(ElapsedLost, 0)

\* C25: steer_angle sets last_known_offset on Track calls only, to that
\* call's offset; a Lost call leaves it as it was, whatever offset the
\* estimator reports with it, and takes the side of its hold and of its
\* sweep bias from it: through a whole Lost run the side is the sign of the
\* offset of the last Track call before the run, or 0 if there was none.
C25_LastKnownOffset ==
    /\ [](est.mode = "none" => last_offset = 0)
    /\ [][/\ est'.mode = "track" => last_offset' = est'.offset
          /\ est'.mode = "lost" =>
                /\ last_offset' = last_offset
                /\ steer_target' =
                      IF ~PastHold(now' - lost_since') /\ last_offset # 0
                      THEN HoldTarget(Sign(last_offset))
                      ELSE SweepAt(now' - lost_since', Sign(last_offset))]_vars

\* a Lost call that reports an offset on the right while the last Track call
\* saw the line on the left: the hold is to the left
C25_Witness ==
    /\ est.mode = "lost" /\ est.offset > 0 /\ last_offset < 0
    /\ lost_since # None /\ now > lost_since
    /\ steer_target = HoldTarget(-1)

\* C21 as stated: in Track mode the target fed to the rate limiter is the PD
\* law Kp * offset + Kd * (offset - previous_offset) / dt, clamped.  For a
\* derivative gain Kd # 0 the derivative term is not 0 when the offset
\* differs from that of the previous tick, so the target then differs from
\* Kp * offset.
C21_PDLaw ==
    [][(Steered /\ est'.mode = "track" /\ est'.offset # est.offset) =>
        steer_target' # TDiv(cfg.kp_deg * est'.offset * AS, OS)]_vars

\* C6 as stated: between two consecutive steer_angle calls the commanded
\* angle changes by at most max_slew_deg_per_s * dt, for every dt > 0.
C6_Original ==
    [][Steered => Abs(prev_angle' - prev_angle) * DS
                    <= cfg.max_slew * cfg.dt * AS]_vars

\* C6 amended: between two consecutive steer_angle calls the commanded angle
\* changes by at most max_slew_deg_per_s * max(0.001, dt): the claimed bound
\* for dt >= 1 ms, the bound of a 1 ms period below that.
C6_SlewBound ==
    [][Steered => Abs(prev_angle' - prev_angle) * DS
                    <= cfg.max_slew * Max2(DS \div MinDtDen, cfg.dt) * AS]_vars

\* steering has moved the angle under a period below 1 ms
C6_Witness ==
    /\ Steered /\ cfg.dt * MinDtDen < DS /\ cfg.dt > 0
    /\ prev_angle # 0

\* C7: every angle steer_angle passes to set_dir_servo_angle, and the stored
\* previous angle, lie in [-max_deg, +max_deg].
C7_AngleRange ==
    /\ prev_angle \in (-max_deg * AS)..(max_deg * AS)
    /\ servo \in (-max_deg * AS)..(max_deg * AS)

\* the angle has been driven to within 2 degrees of -max_deg by a Track
\* target beyond it
C7_Witness ==
    /\ est.mode = "track" /\ cfg.kp_deg * est.offset < -max_deg * OS
    /\ servo = prev_angle /\ prev_angle <= -(max_deg - 2) * AS

\* C8: in Track mode speed_cmd returns a speed in [min_speed, 100].
C8_TrackSpeedRange ==
    (est.mode = "track" /\ speed # None) =>
        (speed >= cfg.min_speed /\ speed <= SpeedMax)

\* a Track estimate of half confidence: the scaled speed 0.75 * base_speed
\* is below min_speed and min_speed is commanded
C8_Witness ==
    /\ est.mode = "track" /\ est.conf = OS \div 2 /\ est.offset = 0
    /\ 3 * cfg.base_speed < 4 * cfg.min_speed
    /\ speed = cfg.min_speed

\* C9: in Lost mode the commanded speed is search_speed, whatever the
\* offset, the confidence and the time since the line was lost.
C9_LostSpeed ==
    (est.mode = "lost" /\ speed # None) => speed = cfg.search_speed

\* Lost for a while with a nonzero offset reported, search_speed = 0
C9_Witness ==
    /\ est.mode = "lost" /\ est.offset # 0 /\ est.conf = OS
    /\ lost_since # None /\ now - lost_since >= 2
    /\ cfg.search_speed = 0 /\ speed = 0

=============================================================================
